---- MODULE Spec2Model ----
(***************************************************************************)
(* Cache-Control header parser and formatter (package cachecontrolheader). *)
(* A Go string is the sequence of its bytes, each a number in 0..255, so   *)
(* that a header value can hold any byte, UTF-8 or not; a Go pointer or    *)
(* error value (a Header pointer, a Duration pointer, an error) is a       *)
(* sequence of length at most one: <<>> is nil, <<v>> points at v.         *)
(***************************************************************************)
EXTENDS Integers, Sequences, FiniteSets, TLC

VARIABLES header, opts, pc, h, err, str, h2

vars == <<header, opts, pc, h, err, str, h2>>

\* -------------------------------------------------------------------------
\* Bounds of the model
\* -------------------------------------------------------------------------

\* an input header holds at most MaxTokens comma-separated tokens
MaxTokens == 2

\* -------------------------------------------------------------------------
\* String literals
\* -------------------------------------------------------------------------

\* the ASCII characters from ' ' (0x20) to '_' (0x5f) in the order of their
\* codes
LowChars == " !\"#$%&'()*+,-./0123456789:;<=>?@ABCDEFGHIJKLMNOPQRSTUVWXYZ[\\]^_"

\* the ASCII characters from 'a' (0x61) to '~' (0x7e) in the order of their
\* codes
HighChars == "abcdefghijklmnopqrstuvwxyz{|}~"

\* the code of a printable ASCII character
CodeOf ==
    [c \in {SubSeq(LowChars, i, i) : i \in 1..Len(LowChars)}
           \cup {SubSeq(HighChars, i, i) : i \in 1..Len(HighChars)} |->
        IF \E i \in 1..Len(LowChars) : SubSeq(LowChars, i, i) = c
        THEN \h1F + (CHOOSE i \in 1..Len(LowChars) : SubSeq(LowChars, i, i) = c)
        ELSE \h60 + (CHOOSE i \in 1..Len(HighChars) : SubSeq(HighChars, i, i) = c)]

\* a byte written as a character literal: Byte("a") is 'a'
Byte(c) == CodeOf[c]

\* a Go string written as a literal of printable ASCII characters
Str(s) == [i \in 1..Len(s) |-> CodeOf[SubSeq(s, i, i)]]

\* s[i:] for a 0-based i
From(s, i) == SubSeq(s, i + 1, Len(s))

\* -------------------------------------------------------------------------
\* UTF-8 (package unicode/utf8)
\* -------------------------------------------------------------------------

\* utf8.RuneSelf: bytes below it are characters of their own
RuneSelf == \h80

\* utf8.RuneError, U+FFFD, which stands for a byte that is no UTF-8
RuneError == \hFFFD

\* utf8.UTFMax: the most bytes one rune takes
UTFMax == 4

\* a continuation byte, utf8.locb <= b <= utf8.hicb
IsContinuation(b) == \h80 <= b /\ b <= \hBF

\* the rune of a well-formed sequence of size bytes at the front of s
runeOf(s, size) ==
    IF size = 2 THEN (s[1] % 32) * 64 + (s[2] % 64)
    ELSE IF size = 3 THEN (s[1] % 16) * 4096 + (s[2] % 64) * 64 + (s[3] % 64)
    ELSE (s[1] % 8) * 262144 + (s[2] % 64) * 4096 + (s[3] % 64) * 64 + (s[4] % 64)

\* the decoding of a sequence whose first byte asks for size bytes and for a
\* second byte in lo..hi (utf8.first and utf8.acceptRanges), the bytes after
\* the second being continuation bytes
decodeSequence(s, size, lo, hi) ==
    IF \/ Len(s) < size
       \/ s[2] < lo
       \/ hi < s[2]
       \/ \E i \in 3..size : ~IsContinuation(s[i])
    THEN [r |-> RuneError, size |-> 1]
    ELSE [r |-> runeOf(s, size), size |-> size]

\* utf8.DecodeRuneInString for a non-empty s, and the step of a range loop
\* over a string: the first rune and its width in bytes, (RuneError, 1) for
\* a byte that starts no well-formed sequence
DecodeRune(s) ==
    IF s[1] < RuneSelf THEN [r |-> s[1], size |-> 1]
    ELSE IF s[1] < \hC2 \/ s[1] > \hF4 THEN [r |-> RuneError, size |-> 1]
    ELSE IF s[1] < \hE0 THEN decodeSequence(s, 2, \h80, \hBF)
    ELSE IF s[1] = \hE0 THEN decodeSequence(s, 3, \hA0, \hBF)
    ELSE IF s[1] = \hED THEN decodeSequence(s, 3, \h80, \h9F)
    ELSE IF s[1] < \hF0 THEN decodeSequence(s, 3, \h80, \hBF)
    ELSE IF s[1] = \hF0 THEN decodeSequence(s, 4, \h90, \hBF)
    ELSE IF s[1] = \hF4 THEN decodeSequence(s, 4, \h80, \h8F)
    ELSE decodeSequence(s, 4, \h80, \hBF)

\* the 0-based start of the last rune of s: the last byte, or the nearest
\* byte before it that is no continuation byte, at most UTFMax bytes from
\* the end (utf8.RuneStart)
lastRuneStart(s) ==
    LET lim == IF Len(s) > UTFMax THEN Len(s) - UTFMax ELSE 0
        at  == {i \in lim..(Len(s) - 2) : ~IsContinuation(s[i + 1])}
    IN IF at # {} THEN CHOOSE i \in at : \A j \in at : j <= i
       ELSE IF lim > 0 THEN lim - 1
       ELSE 0

\* the rune decoded from start, if it ends where s ends
lastRuneFrom(s, start, d) ==
    IF start + d.size # Len(s) THEN [r |-> RuneError, size |-> 1] ELSE d

\* utf8.DecodeLastRuneInString for a non-empty s
DecodeLastRune(s) ==
    IF s[Len(s)] < RuneSelf THEN [r |-> s[Len(s)], size |-> 1]
    ELSE lastRuneFrom(s, lastRuneStart(s), DecodeRune(From(s, lastRuneStart(s))))

\* utf8.AppendRune, as strings.Builder.WriteRune calls it: the UTF-8 bytes of
\* a rune, those of RuneError for a surrogate or a value past U+10FFFF
EncodeRune(r) ==
    IF r < \h80 THEN <<r>>
    ELSE IF r < \h800 THEN <<\hC0 + (r \div 64), \h80 + (r % 64)>>
    ELSE IF r > \h10FFFF \/ (\hD800 <= r /\ r <= \hDFFF) THEN <<\hEF, \hBF, \hBD>>
    ELSE IF r < \h10000
    THEN <<\hE0 + (r \div 4096), \h80 + ((r \div 64) % 64), \h80 + (r % 64)>>
    ELSE <<\hF0 + (r \div 262144), \h80 + ((r \div 4096) % 64),
           \h80 + ((r \div 64) % 64), \h80 + (r % 64)>>

\* -------------------------------------------------------------------------
\* Letter case and white space (package unicode)
\* -------------------------------------------------------------------------

\* unicode.MaxASCII
MaxASCII == \h7F

\* unicode.MaxLatin1
MaxLatin1 == \hFF

\* The lower-case side of unicode.CaseRanges, the simple case mappings of the
\* Unicode character database beyond ASCII: <<lo, hi, step, delta>> says that
\* every step-th rune from lo to hi has the lower-case form delta further on.
\* A run of capitals is a row of step 1; a run in which capitals and small
\* letters alternate (UpperLower in the Go table) is a row of step 2 and
\* delta 1.
CaseRanges ==
    <<<<\h00C0, \h00D6, 1, 32>>, <<\h00D8, \h00DE, 1, 32>>, <<\h0100, \h012E, 2, 1>>,
      <<\h0130, \h0130, 1, -199>>, <<\h0132, \h0136, 2, 1>>, <<\h0139, \h0147, 2, 1>>,
      <<\h014A, \h0176, 2, 1>>, <<\h0178, \h0178, 1, -121>>, <<\h0179, \h017D, 2, 1>>,
      <<\h0181, \h0181, 1, 210>>, <<\h0182, \h0184, 2, 1>>, <<\h0186, \h0186, 1, 206>>,
      <<\h0187, \h0187, 1, 1>>, <<\h0189, \h018A, 1, 205>>, <<\h018B, \h018B, 1, 1>>,
      <<\h018E, \h018E, 1, 79>>, <<\h018F, \h018F, 1, 202>>, <<\h0190, \h0190, 1, 203>>,
      <<\h0191, \h0191, 1, 1>>, <<\h0193, \h0193, 1, 205>>, <<\h0194, \h0194, 1, 207>>,
      <<\h0196, \h0196, 1, 211>>, <<\h0197, \h0197, 1, 209>>, <<\h0198, \h0198, 1, 1>>,
      <<\h019C, \h019C, 1, 211>>, <<\h019D, \h019D, 1, 213>>, <<\h019F, \h019F, 1, 214>>,
      <<\h01A0, \h01A4, 2, 1>>, <<\h01A6, \h01A6, 1, 218>>, <<\h01A7, \h01A7, 1, 1>>,
      <<\h01A9, \h01A9, 1, 218>>, <<\h01AC, \h01AC, 1, 1>>, <<\h01AE, \h01AE, 1, 218>>,
      <<\h01AF, \h01AF, 1, 1>>, <<\h01B1, \h01B2, 1, 217>>, <<\h01B3, \h01B5, 2, 1>>,
      <<\h01B7, \h01B7, 1, 219>>, <<\h01B8, \h01B8, 1, 1>>, <<\h01BC, \h01BC, 1, 1>>,
      <<\h01C4, \h01C4, 1, 2>>, <<\h01C5, \h01C5, 1, 1>>, <<\h01C7, \h01C7, 1, 2>>,
      <<\h01C8, \h01C8, 1, 1>>, <<\h01CA, \h01CA, 1, 2>>, <<\h01CB, \h01DB, 2, 1>>,
      <<\h01DE, \h01EE, 2, 1>>, <<\h01F1, \h01F1, 1, 2>>, <<\h01F2, \h01F4, 2, 1>>,
      <<\h01F6, \h01F6, 1, -97>>, <<\h01F7, \h01F7, 1, -56>>, <<\h01F8, \h021E, 2, 1>>,
      <<\h0220, \h0220, 1, -130>>, <<\h0222, \h0232, 2, 1>>, <<\h023A, \h023A, 1, 10795>>,
      <<\h023B, \h023B, 1, 1>>, <<\h023D, \h023D, 1, -163>>, <<\h023E, \h023E, 1, 10792>>,
      <<\h0241, \h0241, 1, 1>>, <<\h0243, \h0243, 1, -195>>, <<\h0244, \h0244, 1, 69>>,
      <<\h0245, \h0245, 1, 71>>, <<\h0246, \h024E, 2, 1>>, <<\h0370, \h0372, 2, 1>>,
      <<\h0376, \h0376, 1, 1>>, <<\h037F, \h037F, 1, 116>>, <<\h0386, \h0386, 1, 38>>,
      <<\h0388, \h038A, 1, 37>>, <<\h038C, \h038C, 1, 64>>, <<\h038E, \h038F, 1, 63>>,
      <<\h0391, \h03A1, 1, 32>>, <<\h03A3, \h03AB, 1, 32>>, <<\h03CF, \h03CF, 1, 8>>,
      <<\h03D8, \h03EE, 2, 1>>, <<\h03F4, \h03F4, 1, -60>>, <<\h03F7, \h03F7, 1, 1>>,
      <<\h03F9, \h03F9, 1, -7>>, <<\h03FA, \h03FA, 1, 1>>, <<\h03FD, \h03FF, 1, -130>>,
      <<\h0400, \h040F, 1, 80>>, <<\h0410, \h042F, 1, 32>>, <<\h0460, \h0480, 2, 1>>,
      <<\h048A, \h04BE, 2, 1>>, <<\h04C0, \h04C0, 1, 15>>, <<\h04C1, \h04CD, 2, 1>>,
      <<\h04D0, \h052E, 2, 1>>, <<\h0531, \h0556, 1, 48>>, <<\h10A0, \h10C5, 1, 7264>>,
      <<\h10C7, \h10C7, 1, 7264>>, <<\h10CD, \h10CD, 1, 7264>>, <<\h13A0, \h13EF, 1, 38864>>,
      <<\h13F0, \h13F5, 1, 8>>, <<\h1C90, \h1CBA, 1, -3008>>, <<\h1CBD, \h1CBF, 1, -3008>>,
      <<\h1E00, \h1E94, 2, 1>>, <<\h1E9E, \h1E9E, 1, -7615>>, <<\h1EA0, \h1EFE, 2, 1>>,
      <<\h1F08, \h1F0F, 1, -8>>, <<\h1F18, \h1F1D, 1, -8>>, <<\h1F28, \h1F2F, 1, -8>>,
      <<\h1F38, \h1F3F, 1, -8>>, <<\h1F48, \h1F4D, 1, -8>>, <<\h1F59, \h1F5F, 2, -8>>,
      <<\h1F68, \h1F6F, 1, -8>>, <<\h1F88, \h1F8F, 1, -8>>, <<\h1F98, \h1F9F, 1, -8>>,
      <<\h1FA8, \h1FAF, 1, -8>>, <<\h1FB8, \h1FB9, 1, -8>>, <<\h1FBA, \h1FBB, 1, -74>>,
      <<\h1FBC, \h1FBC, 1, -9>>, <<\h1FC8, \h1FCB, 1, -86>>, <<\h1FCC, \h1FCC, 1, -9>>,
      <<\h1FD8, \h1FD9, 1, -8>>, <<\h1FDA, \h1FDB, 1, -100>>, <<\h1FE8, \h1FE9, 1, -8>>,
      <<\h1FEA, \h1FEB, 1, -112>>, <<\h1FEC, \h1FEC, 1, -7>>, <<\h1FF8, \h1FF9, 1, -128>>,
      <<\h1FFA, \h1FFB, 1, -126>>, <<\h1FFC, \h1FFC, 1, -9>>, <<\h2126, \h2126, 1, -7517>>,
      <<\h212A, \h212A, 1, -8383>>, <<\h212B, \h212B, 1, -8262>>, <<\h2132, \h2132, 1, 28>>,
      <<\h2160, \h216F, 1, 16>>, <<\h2183, \h2183, 1, 1>>, <<\h24B6, \h24CF, 1, 26>>,
      <<\h2C00, \h2C2F, 1, 48>>, <<\h2C60, \h2C60, 1, 1>>, <<\h2C62, \h2C62, 1, -10743>>,
      <<\h2C63, \h2C63, 1, -3814>>, <<\h2C64, \h2C64, 1, -10727>>, <<\h2C67, \h2C6B, 2, 1>>,
      <<\h2C6D, \h2C6D, 1, -10780>>, <<\h2C6E, \h2C6E, 1, -10749>>, <<\h2C6F, \h2C6F, 1, -10783>>,
      <<\h2C70, \h2C70, 1, -10782>>, <<\h2C72, \h2C72, 1, 1>>, <<\h2C75, \h2C75, 1, 1>>,
      <<\h2C7E, \h2C7F, 1, -10815>>, <<\h2C80, \h2CE2, 2, 1>>, <<\h2CEB, \h2CED, 2, 1>>,
      <<\h2CF2, \h2CF2, 1, 1>>, <<\hA640, \hA66C, 2, 1>>, <<\hA680, \hA69A, 2, 1>>,
      <<\hA722, \hA72E, 2, 1>>, <<\hA732, \hA76E, 2, 1>>, <<\hA779, \hA77B, 2, 1>>,
      <<\hA77D, \hA77D, 1, -35332>>, <<\hA77E, \hA786, 2, 1>>, <<\hA78B, \hA78B, 1, 1>>,
      <<\hA78D, \hA78D, 1, -42280>>, <<\hA790, \hA792, 2, 1>>, <<\hA796, \hA7A8, 2, 1>>,
      <<\hA7AA, \hA7AA, 1, -42308>>, <<\hA7AB, \hA7AB, 1, -42319>>, <<\hA7AC, \hA7AC, 1, -42315>>,
      <<\hA7AD, \hA7AD, 1, -42305>>, <<\hA7AE, \hA7AE, 1, -42308>>, <<\hA7B0, \hA7B0, 1, -42258>>,
      <<\hA7B1, \hA7B1, 1, -42282>>, <<\hA7B2, \hA7B2, 1, -42261>>, <<\hA7B3, \hA7B3, 1, 928>>,
      <<\hA7B4, \hA7C2, 2, 1>>, <<\hA7C4, \hA7C4, 1, -48>>, <<\hA7C5, \hA7C5, 1, -42307>>,
      <<\hA7C6, \hA7C6, 1, -35384>>, <<\hA7C7, \hA7C9, 2, 1>>, <<\hA7D0, \hA7D0, 1, 1>>,
      <<\hA7D6, \hA7D8, 2, 1>>, <<\hA7F5, \hA7F5, 1, 1>>, <<\hFF21, \hFF3A, 1, 32>>,
      <<\h10400, \h10427, 1, 40>>, <<\h104B0, \h104D3, 1, 40>>, <<\h10570, \h1057A, 1, 39>>,
      <<\h1057C, \h1058A, 1, 39>>, <<\h1058C, \h10592, 1, 39>>, <<\h10594, \h10595, 1, 39>>,
      <<\h10C80, \h10CB2, 1, 64>>, <<\h118A0, \h118BF, 1, 32>>, <<\h16E40, \h16E5F, 1, 32>>,
      <<\h1E900, \h1E921, 1, 34>>>>

\* the row of CaseRanges that holds r
caseRangeOf(r) ==
    {k \in 1..Len(CaseRanges) :
        /\ CaseRanges[k][1] <= r
        /\ r <= CaseRanges[k][2]
        /\ (r - CaseRanges[k][1]) % CaseRanges[k][3] = 0}

\* unicode.To(unicode.LowerCase, r) with the row of r found
toLowerIn(r, rows) ==
    IF rows = {} THEN r ELSE r + CaseRanges[CHOOSE k \in rows : TRUE][4]

\* unicode.ToLower
ToLowerRune(r) ==
    IF r <= MaxASCII
    THEN IF Byte("A") <= r /\ r <= Byte("Z") THEN r + (Byte("a") - Byte("A")) ELSE r
    ELSE toLowerIn(r, caseRangeOf(r))

\* unicode.IsSpace: '\t', '\n', '\v', '\f', '\r', ' ', U+0085 (NEL) and
\* U+00A0 (NBSP) among the Latin-1 runes, the table unicode.White_Space
\* beyond them
IsSpace(r) ==
    IF r <= MaxLatin1 THEN r \in {\h09, \h0A, \h0B, \h0C, \h0D, \h20, \h85, \hA0}
    ELSE \/ r = \h1680
         \/ \h2000 <= r /\ r <= \h200A
         \/ \h2028 <= r /\ r <= \h2029
         \/ r = \h202F
         \/ r = \h205F
         \/ r = \h3000

\* -------------------------------------------------------------------------
\* Package strings
\* -------------------------------------------------------------------------

RECURSIVE Map(_)
\* strings.Map(unicode.ToLower, s): the runes of s in lower case one after
\* the other; a byte that is no UTF-8 is read as RuneError and comes out as
\* the three bytes of U+FFFD
Map(s) ==
    IF s = <<>> THEN <<>>
    ELSE EncodeRune(ToLowerRune(DecodeRune(s).r)) \o Map(From(s, DecodeRune(s).size))

\* a ToLower that leaves the string as it is
ToLowerIdentity(s) == s

\* strings.ToLower: a string of ASCII bytes has its capitals moved by
\* 'a' - 'A'; any other string goes through Map
ToLower(s) ==
    IF \A i \in 1..Len(s) : s[i] < RuneSelf
    THEN [i \in 1..Len(s) |->
             IF Byte("A") <= s[i] /\ s[i] <= Byte("Z")
             THEN s[i] + (Byte("a") - Byte("A"))
             ELSE s[i]]
    ELSE Map(s)

\* a byte that is no space character
IsNoSpaceByte(c) == c # Byte(" ")

\* a ReplaceAll that drops nothing
RemoveSpacesIdentity(s) == s

\* strings.ReplaceAll(s, " ", ""): every byte 0x20 dropped
RemoveSpaces(s) == SelectSeq(s, IsNoSpaceByte)

\* the least of a set of positions, 0 for none
firstOf(at) == IF at = {} THEN 0 ELSE CHOOSE i \in at : \A j \in at : i <= j

\* strings.Index for a one-byte separator: the 1-based position of the first
\* c in s, 0 when there is none
Index(s, c) == firstOf({i \in 1..Len(s) : s[i] = c})

RECURSIVE Split(_, _)

\* s split at its first separator, found at position i, and the rest split on
splitAt(s, sep, i) ==
    IF i = 0 THEN <<s>>
    ELSE <<SubSeq(s, 1, i - 1)>> \o Split(SubSeq(s, i + 1, Len(s)), sep)

\* strings.Split(s, sep) for a one-byte separator: always at least one element
Split(s, sep) == splitAt(s, sep, Index(s, sep))

\* s cut in two at its first separator, found at position i
cutAt(s, i) ==
    IF i = 0 THEN <<s>>
    ELSE <<SubSeq(s, 1, i - 1), SubSeq(s, i + 1, Len(s))>>

\* strings.SplitN(s, sep, 2) for a one-byte separator: cut at the first
\* separator only
SplitN2(s, sep) == cutAt(s, Index(s, sep))

\* strings.asciiSpace: '\t', '\n', '\v', '\f', '\r', ' '
IsAsciiSpace(c) == c \in {\h09, \h0A, \h0B, \h0C, \h0D, \h20}

RECURSIVE TrimLeftFunc(_)
\* strings.TrimLeftFunc(s, unicode.IsSpace): s from its first rune that is
\* no space on
TrimLeftFunc(s) ==
    IF s = <<>> THEN s
    ELSE IF IsSpace(DecodeRune(s).r) THEN TrimLeftFunc(From(s, DecodeRune(s).size))
    ELSE s

RECURSIVE lastIndexFunc(_, _)
\* strings.lastIndexFunc(s[0:i], unicode.IsSpace, false): the 0-based index
\* of the last rune that is no space, -1 for none
lastIndexFunc(s, i) ==
    IF i = 0 THEN -1
    ELSE IF IsSpace(DecodeLastRune(SubSeq(s, 1, i)).r)
    THEN lastIndexFunc(s, i - DecodeLastRune(SubSeq(s, 1, i)).size)
    ELSE i - DecodeLastRune(SubSeq(s, 1, i)).size

\* s[0:i] with i moved past the rune that starts there
upToRuneAt(s, i) ==
    IF i >= 0 /\ s[i + 1] >= RuneSelf
    THEN SubSeq(s, 1, i + DecodeRune(From(s, i)).size)
    ELSE SubSeq(s, 1, i + 1)

\* strings.TrimRightFunc(s, unicode.IsSpace)
TrimRightFunc(s) == upToRuneAt(s, lastIndexFunc(s, Len(s)))

RECURSIVE trimStop(_, _, _)
\* the second loop of strings.TrimSpace: stop comes down from len(s) over
\* the ASCII spaces; a byte from RuneSelf on hands s[start:stop] to
\* TrimRightFunc
trimStop(s, start, stop) ==
    IF stop <= start THEN SubSeq(s, start + 1, stop)
    ELSE IF s[stop] >= RuneSelf THEN TrimRightFunc(SubSeq(s, start + 1, stop))
    ELSE IF ~IsAsciiSpace(s[stop]) THEN SubSeq(s, start + 1, stop)
    ELSE trimStop(s, start, stop - 1)

RECURSIVE trimStart(_, _)
\* the first loop of strings.TrimSpace: start goes up over the ASCII spaces;
\* a byte from RuneSelf on hands s[start:] to strings.TrimFunc, which is
\* TrimRightFunc(TrimLeftFunc(s[start:]))
trimStart(s, start) ==
    IF start >= Len(s) THEN trimStop(s, start, Len(s))
    ELSE IF s[start + 1] >= RuneSelf THEN TrimRightFunc(TrimLeftFunc(From(s, start)))
    ELSE IF ~IsAsciiSpace(s[start + 1]) THEN trimStop(s, start, Len(s))
    ELSE trimStart(s, start + 1)

\* strings.TrimSpace
TrimSpace(s) == trimStart(s, 0)

RECURSIVE Join(_, _)
\* strings.Join
Join(ds, sep) ==
    IF ds = <<>> THEN <<>>
    ELSE IF Len(ds) = 1 THEN ds[1]
    ELSE ds[1] \o sep \o Join(Tail(ds), sep)

\* -------------------------------------------------------------------------
\* time.quote
\* -------------------------------------------------------------------------

\* time.lowerhex
lowerhex == Str("0123456789abcdef")

RECURSIVE hexEscapes(_)
\* each byte of bs as \x and its two lower-case hexadecimal digits
hexEscapes(bs) ==
    IF bs = <<>> THEN <<>>
    ELSE <<Byte("\\"), Byte("x"), lowerhex[(bs[1] \div 16) + 1], lowerhex[(bs[1] % 16) + 1]>>
         \o hexEscapes(Tail(bs))

\* the bytes time.quote escapes for the rune r read at the front of s: one
\* for a byte that is no UTF-8, else as many as the rune has (three for a
\* U+FFFD that does stand in s)
escapedWidth(s, r) ==
    IF r = RuneError
    THEN IF Len(s) >= 3 /\ SubSeq(s, 1, 3) = EncodeRune(RuneError) THEN 3 ELSE 1
    ELSE Len(EncodeRune(r))

\* what time.quote writes for the rune r read at the front of s: its bytes
\* as \xhh for a control character and for a rune from RuneSelf on, a
\* backslash in front of '"' and '\', the character itself otherwise
quoteRune(s, r) ==
    IF r >= RuneSelf \/ r < Byte(" ")
    THEN hexEscapes(SubSeq(s, 1, escapedWidth(s, r)))
    ELSE IF r = Byte("\"") \/ r = Byte("\\") THEN <<Byte("\\"), r>>
    ELSE <<r>>

RECURSIVE quoteRunes(_)
\* for i, c := range s
quoteRunes(s) ==
    IF s = <<>> THEN <<>>
    ELSE quoteRune(s, DecodeRune(s).r) \o quoteRunes(From(s, DecodeRune(s).size))

\* time.quote, which time.ParseDuration puts around the text in its errors
Quote(s) == Str("\"") \o quoteRunes(s) \o Str("\"")

\* -------------------------------------------------------------------------
\* Whole numbers of 64 bits and more
\* -------------------------------------------------------------------------

\* A uint64, and any larger whole number, is kept as its limbs of four decimal
\* digits, the lowest limb first and no zero limb at the top; <<>> is 0.
LimbBase == 10000

RECURSIVE BigOfNat(_)
BigOfNat(n) ==
    IF n = 0 THEN <<>> ELSE <<n % LimbBase>> \o BigOfNat(n \div LimbBase)

RECURSIVE BigNorm(_)
\* the zero limbs at the top dropped
BigNorm(a) ==
    IF a = <<>> THEN a
    ELSE IF a[Len(a)] = 0 THEN BigNorm(SubSeq(a, 1, Len(a) - 1))
    ELSE a

RECURSIVE BigMulAdd(_, _, _)
\* a * m + c for m and c up to 10^5, limb by limb
BigMulAdd(a, m, c) ==
    IF a = <<>> THEN BigOfNat(c)
    ELSE LET t == a[1] * m + c
         IN <<t % LimbBase>> \o BigMulAdd(Tail(a), m, t \div LimbBase)

BigMulSmall(a, m) == BigNorm(BigMulAdd(a, m, 0))

RECURSIVE BigAddCarry(_, _, _)
BigAddCarry(a, b, c) ==
    IF a = <<>> /\ b = <<>> THEN BigOfNat(c)
    ELSE IF c = 0 /\ a = <<>> THEN b
    ELSE IF c = 0 /\ b = <<>> THEN a
    ELSE LET x == IF a = <<>> THEN 0 ELSE a[1]
             y == IF b = <<>> THEN 0 ELSE b[1]
             t == x + y + c
         IN <<t % LimbBase>>
            \o BigAddCarry(IF a = <<>> THEN a ELSE Tail(a),
                           IF b = <<>> THEN b ELSE Tail(b), t \div LimbBase)

BigAdd(a, b) == BigAddCarry(a, b, 0)

RECURSIVE BigSubBorrow(_, _, _)
BigSubBorrow(a, b, c) ==
    IF a = <<>> THEN <<>>
    ELSE LET y == IF b = <<>> THEN 0 ELSE b[1]
             t == a[1] - y - c
         IN <<IF t < 0 THEN t + LimbBase ELSE t>>
            \o BigSubBorrow(Tail(a), IF b = <<>> THEN b ELSE Tail(b),
                            IF t < 0 THEN 1 ELSE 0)

\* a - b, for a >= b
BigSub(a, b) == BigNorm(BigSubBorrow(a, b, 0))

RECURSIVE BigLess(_, _)
\* a < b
BigLess(a, b) ==
    IF Len(a) # Len(b) THEN Len(a) < Len(b)
    ELSE IF a = <<>> THEN FALSE
    ELSE LET n == Len(a)
         IN IF a[n] # b[n] THEN a[n] < b[n]
            ELSE BigLess(SubSeq(a, 1, n - 1), SubSeq(b, 1, n - 1))

RECURSIVE BigMul(_, _)
\* a * b, one limb of b at a time; a zero limb of b only shifts
BigMul(a, b) ==
    IF a = <<>> \/ b = <<>> THEN <<>>
    ELSE IF Len(b) = 1 THEN BigMulSmall(a, b[1])
    ELSE IF b[1] = 0 THEN <<0>> \o BigMul(a, Tail(b))
    ELSE BigAdd(BigMulSmall(a, b[1]), <<0>> \o BigMul(a, Tail(b)))

\* the limbs of a sequence in the opposite order
Reversed(a) == [i \in 1..Len(a) |-> a[Len(a) + 1 - i]]

RECURSIVE BigDivLimbs(_, _, _)
\* the limbs of the quotient of a by m, the top one first: short division
\* from the top limb of a down, r the remainder carried in
BigDivLimbs(a, m, r) ==
    IF a = <<>> THEN <<>>
    ELSE <<(r * LimbBase + a[Len(a)]) \div m>>
         \o BigDivLimbs(SubSeq(a, 1, Len(a) - 1), m, (r * LimbBase + a[Len(a)]) % m)

\* a \div m for m up to 10^5
BigDivSmall(a, m) == BigNorm(Reversed(BigDivLimbs(a, m, 0)))

RECURSIVE Pow2Big(_)
\* 2^j, thirteen bits at a time
Pow2Big(j) ==
    IF j <= 13 THEN BigOfNat(2^j) ELSE BigMulSmall(Pow2Big(j - 13), 2^13)

RECURSIVE ShiftLeft(_, _)
\* a * 2^s
ShiftLeft(a, s) ==
    IF s = 0 \/ a = <<>> THEN a
    ELSE IF s >= 13 THEN ShiftLeft(BigMulSmall(a, 2^13), s - 13)
    ELSE BigMulSmall(a, 2^s)

RECURSIVE ShiftRight(_, _)
\* a \div 2^s
ShiftRight(a, s) ==
    IF s = 0 \/ a = <<>> THEN a
    ELSE IF s >= 13 THEN ShiftRight(BigDivSmall(a, 2^13), s - 13)
    ELSE BigDivSmall(a, 2^s)

\* a whole number with its sign, as an int64 holds it
Signed(neg, mag) == [neg |-> neg /\ mag # <<>>, mag |-> mag]

RECURSIVE SmallToStr(_)
\* the decimal digits of a number below LimbBase
SmallToStr(n) ==
    IF n < 10 THEN <<Byte("0") + n>>
    ELSE SmallToStr(n \div 10) \o <<Byte("0") + (n % 10)>>

\* the four digits of a limb below the top one
LimbToStr(n) ==
    <<Byte("0") + (n \div 1000), Byte("0") + ((n \div 100) % 10),
      Byte("0") + ((n \div 10) % 10), Byte("0") + (n % 10)>>

RECURSIVE LimbsToStr(_)
LimbsToStr(a) ==
    IF a = <<>> THEN <<>>
    ELSE LimbsToStr(Tail(a)) \o LimbToStr(a[1])

\* the decimal digits of a whole number
NatToStr(a) ==
    IF a = <<>> THEN Str("0")
    ELSE SmallToStr(a[Len(a)]) \o LimbsToStr(SubSeq(a, 1, Len(a) - 1))

\* fmt.Sprintf("%d", n)
IntToStr(n) == IF n.neg THEN Str("-") \o NatToStr(n.mag) ELSE NatToStr(n.mag)

\* -------------------------------------------------------------------------
\* float64 arithmetic
\* -------------------------------------------------------------------------

\* A float64 above zero is kept as [m, e] with value m * 2^e, m a whole number
\* of at most 53 bits. The exponent e has no bound here: ParseDuration comes
\* near the ends of the float64 range only with a scale beyond 10^308, where
\* Go's quotient is zero and the quotient here lies below 2^-900, and either
\* way the product with a number below 2^64 is cut to 0 nanoseconds.

\* the bits a float64 keeps of a number
MantissaBits == 53

\* 2^53 = 9007199254740992
TwoTo53 == <<992, 5474, 1992, 9007>>

IsOdd(a) == a # <<>> /\ a[1] % 2 = 1

\* the whole numbers met in the arithmetic, the products of two mantissas
\* among them (a mantissa rounded up may be 2^53 itself), stay below
\* 2^DoubleBits
DoubleBits == 2 * (MantissaBits + 1)

\* 2^j for j up to DoubleBits
PowersOfTwo == [j \in 0..DoubleBits |-> Pow2Big(j)]

\* the number of bits of a whole number below 2^DoubleBits, 0 for 0
BitLen(a) == Cardinality({j \in 0..(DoubleBits - 1) : ~BigLess(a, PowersOfTwo[j])})

\* how many low bits a whole number must lose to fit the mantissa
ExcessBits(a) ==
    IF BigLess(a, TwoTo53) THEN 0 ELSE BitLen(a) - MantissaBits

\* float64(a) for a whole number a, as [m, e] with value m * 2^e: a itself
\* when it fits the mantissa, else its top 53 bits rounded to nearest, ties
\* to even
RoundToFloat(a) ==
    LET s == ExcessBits(a)
    IN IF s = 0 THEN [m |-> a, e |-> 0]
       ELSE LET m0   == ShiftRight(a, s)
                r    == BigSub(a, ShiftLeft(m0, s))
                half == PowersOfTwo[s - 1]
                up   == BigLess(half, r) \/ (r = half /\ IsOdd(m0))
            IN [m |-> IF up THEN BigAdd(m0, <<1>>) ELSE m0, e |-> s]

\* the exponent k of a power of ten 10^k given by its limbs
Log10(p) ==
    LET top == p[Len(p)]
    IN 4 * (Len(p) - 1)
       + (IF top = 1 THEN 0 ELSE IF top = 10 THEN 1 ELSE IF top = 100 THEN 2 ELSE 3)

\* the quotient q of a by p with the remainder a - q * p
withRemainder(a, p, q) == [q |-> q, r |-> BigSub(a, BigMul(q, p))]

\* a \div 10^k and the remainder: whole limbs dropped, then a short division
BigDivPow10(a, p) ==
    LET k    == Log10(p)
        drop == k \div 4
        hi   == IF Len(a) <= drop THEN <<>> ELSE SubSeq(a, drop + 1, Len(a))
    IN withRemainder(a, p, BigDivSmall(hi, 10^(k % 4)))

RECURSIVE quotientLimb(_, _, _, _)
\* the largest k from lo to hi with b * k <= r, lo being one such
quotientLimb(r, b, lo, hi) ==
    IF lo >= hi THEN lo
    ELSE IF BigLess(r, BigMulSmall(b, (lo + hi + 1) \div 2))
    THEN quotientLimb(r, b, lo, ((lo + hi + 1) \div 2) - 1)
    ELSE quotientLimb(r, b, (lo + hi + 1) \div 2, hi)

\* the limbs of r from the top limb of b up, as a number: r is below
\* b * LimbBase, so there are two of them at most
topOf(r, b) ==
    IF Len(r) > Len(b) THEN r[Len(b) + 1] * LimbBase + r[Len(b)] ELSE r[Len(b)]

\* the limb r \div b of the quotient for b <= r < b * LimbBase: with t the
\* top limb of b it lies between topOf(r, b) \div (t + 1) and
\* topOf(r, b) \div t, and is searched for there
limbOf(r, b) ==
    quotientLimb(r, b, topOf(r, b) \div (b[Len(b)] + 1),
                 IF topOf(r, b) \div b[Len(b)] < LimbBase
                 THEN topOf(r, b) \div b[Len(b)]
                 ELSE LimbBase - 1)

\* the remainder r with limb i of a brought down
broughtDown(a, i, r) == BigNorm(<<a[i]>> \o r)

\* the limbs q of a quotient with the limb k put below them, and what is left
\* of r once b is taken from it k times
withLimb(q, r, b, k) == [q |-> <<k>> \o q, r |-> BigSub(r, BigMulSmall(b, k))]

RECURSIVE divideLimbs(_, _, _, _)
\* the long division by b of the limbs of a from limb i down, d.q the limbs
\* of the quotient found so far and d.r < b the remainder so far: limb i is
\* brought down, and where b does not go into the remainder the limb of the
\* quotient is 0
divideLimbs(a, i, b, d) ==
    IF i = 0 THEN [q |-> BigNorm(d.q), r |-> d.r]
    ELSE IF BigLess(broughtDown(a, i, d.r), b)
    THEN divideLimbs(a, i - 1, b, [q |-> <<0>> \o d.q, r |-> broughtDown(a, i, d.r)])
    ELSE divideLimbs(a, i - 1, b,
                     withLimb(d.q, broughtDown(a, i, d.r), b,
                              limbOf(broughtDown(a, i, d.r), b)))

\* the factor that brings the top limb of b to half of LimbBase and more,
\* where the bounds of limbOf lie two apart at most
Normalizer(b) == LimbBase \div (b[Len(b)] + 1)

\* the quotient and the remainder of a division of a * n by b * n, as those
\* of a by b
denormalized(d, n) == [q |-> d.q, r |-> BigDivSmall(d.r, n)]

\* a \div b and a % b for b >= 1, by long division from the top limb of a
\* down, of a and b both multiplied by Normalizer(b)
BigDivMod(a, b) ==
    denormalized(divideLimbs(BigMulSmall(a, Normalizer(b)), Len(BigMulSmall(a, Normalizer(b))),
                             BigMulSmall(b, Normalizer(b)), [q |-> <<>>, r |-> <<>>]),
                 Normalizer(b))

\* a * 2^j for j > 0, a itself otherwise
Scaled(a, j) == IF j > 0 THEN ShiftLeft(a, j) ELSE a

\* the j for which a * 2^j / b lies in [2^52, 2^53), which is j0 or j0 + 1 for
\* j0 = 52 + BitLen(b) - BitLen(a)
quotientShift(a, b, j0) ==
    IF BigLess(Scaled(a, j0), ShiftLeft(Scaled(b, 0 - j0), MantissaBits - 1))
    THEN j0 + 1
    ELSE j0

\* the quotient d.q of a division by b with remainder d.r, rounded to
\* nearest, ties to even
roundedQuotient(d, b) ==
    IF d.r = <<>> THEN d.q
    ELSE IF BigLess(b, BigAdd(d.r, d.r)) \/ (BigAdd(d.r, d.r) = b /\ IsOdd(d.q))
    THEN BigAdd(d.q, <<1>>)
    ELSE d.q

\* x / y with the quotient of the mantissas taken at 2^j
divideAt(x, y, j) ==
    [m |-> roundedQuotient(BigDivMod(Scaled(x.m, j), Scaled(y.m, 0 - j)),
                           Scaled(y.m, 0 - j)),
     e |-> x.e - y.e - j]

\* x / y for two float64 above zero: the 53 bits of the quotient, rounded to
\* nearest, ties to even
FloatDiv(x, y) ==
    divideAt(x, y, quotientShift(x.m, y.m,
                                 MantissaBits - 1 + BitLen(y.m) - BitLen(x.m)))

\* x * y for two float64
FloatMul(x, y) ==
    LET r == RoundToFloat(BigMul(x.m, y.m))
    IN [m |-> r.m, e |-> r.e + x.e + y.e]

\* uint64(x) for a float64 x >= 0 below 2^64: the fraction cut off
FloatToUint(x) ==
    IF x.e >= 0 THEN ShiftLeft(x.m, x.e) ELSE ShiftRight(x.m, 0 - x.e)

\* -------------------------------------------------------------------------
\* time.Duration and time.ParseDuration, as parse calls it
\* -------------------------------------------------------------------------

\* A time.Duration is an int64 count of nanoseconds; it is kept here as its
\* sign and the whole number of nanoseconds, zero without a sign.
Duration(neg, ns) == [neg |-> neg /\ ns # <<>>, ns |-> ns]

NanosPerSecond == 1000 * 1000 * 1000

\* time.Second
Second == BigOfNat(NanosPerSecond)

Abs(n) == IF n < 0 THEN 0 - n ELSE n

\* sec * time.Second + nsec, for sec and nsec of one sign
Dur(sec, nsec) ==
    Duration(sec < 0 \/ nsec < 0,
             BigAdd(BigMul(BigOfNat(Abs(sec)), Second), BigOfNat(Abs(nsec))))

\* n * time.Second
Seconds(n) == Dur(n, 0)

\* 1 << 63 = 9223372036854775808
TwoTo63 == <<5808, 5477, 368, 3372, 922>>

\* 1 << 64 = 18446744073709551616
TwoTo64 == <<1616, 955, 737, 6744, 1844>>

\* 1 << 63 / 10 = 922337203685477580
TwoTo63Tenth == <<7580, 8547, 2036, 2337, 92>>

\* 1<<63 - 1 = 9223372036854775807, the largest int64
MaxInt64 == <<5807, 5477, 368, 3372, 922>>

\* (1<<63 - 1) / 10 = 922337203685477580
MaxInt64Tenth == <<7580, 8547, 2036, 2337, 92>>

\* a + b in uint64, which wraps at 2^64
AddUint64(a, b) ==
    LET s == BigAdd(a, b)
    IN IF BigLess(s, TwoTo64) THEN s ELSE BigSub(s, TwoTo64)

\* time.unitMap in nanoseconds; the microsecond is spelled us, with the micro
\* sign U+00B5 (bytes c2 b5) and with the Greek letter mu U+03BC (bytes ce bc)
unitMap ==
    (Str("ns") :> BigOfNat(1)) @@ (Str("us") :> BigOfNat(1000))
    @@ ((<<\hC2, \hB5>> \o Str("s")) :> BigOfNat(1000))
    @@ ((<<\hCE, \hBC>> \o Str("s")) :> BigOfNat(1000))
    @@ (Str("ms") :> BigOfNat(1000 * 1000)) @@ (Str("s") :> Second)
    @@ (Str("m") :> BigMulSmall(Second, 60)) @@ (Str("h") :> BigMulSmall(Second, 3600))

\* uint64(float64(f) * (float64(unit) / scale)): the fraction f/scale of a unit
\* in nanoseconds, through the two float64 roundings of the quotient and of
\* the product
FracUnit(f, scale, unit) ==
    FloatToUint(FloatMul(RoundToFloat(f), FloatDiv(RoundToFloat(unit), scale)))

\* '0' <= c && c <= '9'
IsDigit(c) == Byte("0") <= c /\ c <= Byte("9")

\* c - '0'
DigitVal(c) == c - Byte("0")

RECURSIVE leadingInt(_, _)

\* after x = x*10 + uint64(c) - '0': the error when x passes 1 << 63, else
\* the next character
leadingIntNext(x, s) ==
    IF BigLess(TwoTo63, x) THEN [x |-> <<>>, rem |-> <<>>, err |-> TRUE]
    ELSE leadingInt(x, s)

\* time.leadingInt: the leading [0-9]* of s, started from x; err when the
\* number passes 1 << 63
leadingInt(x, s) ==
    IF s = <<>> \/ ~IsDigit(Head(s)) THEN [x |-> x, rem |-> s, err |-> FALSE]
    ELSE IF BigLess(TwoTo63Tenth, x) THEN [x |-> <<>>, rem |-> <<>>, err |-> TRUE]
    ELSE leadingIntNext(BigNorm(BigMulAdd(x, 10, DigitVal(Head(s)))), Tail(s))

\* the float64 1, at which scale starts
One == RoundToFloat(<<1>>)

\* y = x*10 + uint64(c) - '0' for the digit c that starts s
nextDigit(f, s) == BigNorm(BigMulAdd(f, 10, DigitVal(Head(s))))

RECURSIVE leadingFraction(_, _, _)
\* time.leadingFraction: the leading [0-9]* of s as a fraction f/scale, with
\* x the f and the float64 scale so far. Once x passes (1<<63 - 1) / 10, or y
\* passes 1 << 63, the digits are still consumed and f and scale stay as they
\* are; else x = y and scale *= 10, a float64 product that is rounded from
\* 10^23 on
leadingFraction(x, overflow, s) ==
    IF s = <<>> \/ ~IsDigit(Head(s)) THEN [f |-> x.f, scale |-> x.scale, rem |-> s]
    ELSE IF overflow \/ BigLess(MaxInt64Tenth, x.f) \/ BigLess(TwoTo63, nextDigit(x.f, s))
    THEN leadingFraction(x, TRUE, Tail(s))
    ELSE leadingFraction([f |-> nextDigit(x.f, s), scale |-> FloatMul(x.scale, RoundToFloat(<<10>>))],
                         FALSE, Tail(s))

RECURSIVE unitLen(_)
\* the length of the unit that starts s: every byte up to '.' or a digit
unitLen(s) ==
    IF s = <<>> \/ Head(s) = Byte(".") \/ IsDigit(Head(s)) THEN 0
    ELSE 1 + unitLen(Tail(s))

errInvalidDuration(orig) == <<Str("time: invalid duration ") \o Quote(orig)>>

errMissingUnit(orig) == <<Str("time: missing unit in duration ") \o Quote(orig)>>

errUnknownUnit(u, orig) ==
    <<Str("time: unknown unit ") \o Quote(u) \o Str(" in duration ") \o Quote(orig)>>

RECURSIVE durationTerms(_, _, _)

\* d > 1<<63 after d += v has given sum, and on to the rest of the string
nextTerm(rest, orig, sum) ==
    IF BigLess(TwoTo63, sum) THEN [d |-> <<>>, err |-> errInvalidDuration(orig)]
    ELSE durationTerms(rest, sum, orig)

\* v > 1<<63 once the fraction is added, and d += v
addTerm(rest, d, orig, v) ==
    IF BigLess(TwoTo63, v) THEN [d |-> <<>>, err |-> errInvalidDuration(orig)]
    ELSE nextTerm(rest, orig, AddUint64(d, v))

\* unit, ok := unitMap[u]; v > 1<<63/unit, checked as v * unit > 1<<63;
\* v *= unit, which is vu; and the fraction f/scale of a unit added for f > 0
scaleTerm(rest, d, orig, f, scale, u, vu) ==
    IF BigLess(TwoTo63, vu) THEN [d |-> <<>>, err |-> errInvalidDuration(orig)]
    ELSE IF f # <<>>
    THEN addTerm(rest, d, orig, BigAdd(vu, FracUnit(f, scale, unitMap[u])))
    ELSE addTerm(rest, d, orig, vu)

\* the unit: the i bytes of s up to '.' or a digit
consumeUnit(s, d, orig, v, f, scale, i) ==
    IF i = 0 THEN [d |-> <<>>, err |-> errMissingUnit(orig)]
    ELSE IF SubSeq(s, 1, i) \notin DOMAIN unitMap
    THEN [d |-> <<>>, err |-> errUnknownUnit(SubSeq(s, 1, i), orig)]
    ELSE scaleTerm(SubSeq(s, i + 1, Len(s)), d, orig, f, scale, SubSeq(s, 1, i),
                   BigMul(v, unitMap[SubSeq(s, 1, i)]))

\* post := pl != len(s) for the pl bytes that followed the point, with lf
\* what leadingFraction gave; !pre && !post is no digit at all
afterFraction(d, orig, v, pre, pl, lf) ==
    IF ~pre /\ pl = Len(lf.rem) THEN [d |-> <<>>, err |-> errInvalidDuration(orig)]
    ELSE consumeUnit(lf.rem, d, orig, v, lf.f, lf.scale, unitLen(lf.rem))

\* pre := pl != len(s) for the pl bytes leadingInt was given, with li what it
\* gave; then (\.[0-9]*)?
afterInt(pl, d, orig, li) ==
    IF li.err THEN [d |-> <<>>, err |-> errInvalidDuration(orig)]
    ELSE IF li.rem # <<>> /\ Head(li.rem) = Byte(".")
    THEN afterFraction(d, orig, li.x, pl # Len(li.rem), Len(li.rem) - 1,
                       leadingFraction([f |-> <<>>, scale |-> One], FALSE, Tail(li.rem)))
    ELSE afterFraction(d, orig, li.x, pl # Len(li.rem), Len(li.rem),
                       [f |-> <<>>, scale |-> One, rem |-> li.rem])

\* the loop of time.ParseDuration: ([0-9]*(\.[0-9]*)?[a-z]+)+ added up into
\* the uint64 d
durationTerms(s, d, orig) ==
    IF s = <<>> THEN [d |-> d, err |-> <<>>]
    ELSE IF ~(Head(s) = Byte(".") \/ IsDigit(Head(s)))
    THEN [d |-> <<>>, err |-> errInvalidDuration(orig)]
    ELSE afterInt(Len(s), d, orig, leadingInt(<<>>, s))

\* the return of time.ParseDuration after the loop r: its error, -Duration(d)
\* for a negative text, and d > 1<<63 - 1 an error for the others
durationResult(s, neg, r) ==
    IF r.err # <<>> THEN [d |-> Seconds(0), err |-> r.err]
    ELSE IF neg THEN [d |-> Duration(TRUE, r.d), err |-> <<>>]
    ELSE IF BigLess(MaxInt64, r.d)
    THEN [d |-> Seconds(0), err |-> errInvalidDuration(s)]
    ELSE [d |-> Duration(FALSE, r.d), err |-> <<>>]

\* time.ParseDuration(s): [-+]?([0-9]*(\.[0-9]*)?[a-z]+)+
ParseDuration(s) ==
    LET signed == s # <<>> /\ Head(s) \in {Byte("-"), Byte("+")}
        neg    == signed /\ Head(s) = Byte("-")
        body   == IF signed THEN Tail(s) ELSE s
    IN IF body = Str("0") THEN [d |-> Seconds(0), err |-> <<>>]
       ELSE IF body = <<>> THEN [d |-> Seconds(0), err |-> errInvalidDuration(s)]
       ELSE durationResult(s, neg, durationTerms(body, <<>>, s))

RECURSIVE BigToNat(_)
\* a whole number below 2^31 as a number
BigToNat(a) == IF a = <<>> THEN 0 ELSE a[1] + LimbBase * BigToNat(Tail(a))

\* d / time.Second, cut toward zero
WholeSeconds(d) == Signed(d.neg, BigDivPow10(d.ns, Second).q)

\* 2^24 = 16777216
TwoTo24 == <<7216, 1677>>

\* float64(sec) + float64(nsec)/1e9 cut toward zero, for dm the whole seconds
\* and the nanoseconds left over: from 2^24 seconds on a remainder closer to
\* the next whole second than half a unit in the last place,
\* 2^(k-53) s = 5^9 / 2^(44-k) ns for seconds of k+1 bits, gives the next
\* whole second
roundSeconds(neg, a, r) ==
    IF BigLess(a, TwoTo24) THEN Signed(neg, a)
    ELSE IF NanosPerSecond - BigToNat(r)
            <= (5^9) \div (2^(20 - Cardinality({j \in 25..33 : ~BigLess(a, Pow2Big(j))})))
    THEN Signed(neg, BigAdd(a, <<1>>))
    ELSE Signed(neg, a)

\* int(d.Seconds()), where Seconds() is float64(sec) + float64(nsec)/1e9: the
\* sum is rounded to the 53 bits of a float64 and int() cuts toward zero
IntSeconds(d) ==
    roundSeconds(d.neg, BigDivPow10(d.ns, Second).q, BigDivPow10(d.ns, Second).r)

\* -------------------------------------------------------------------------
\* Directives, options and the Header
\* -------------------------------------------------------------------------

dMaxAge == Str("max-age")

dMaxStale == Str("max-stale")

dMinFresh == Str("min-fresh")

dNoCache == Str("no-cache")

dNoStore == Str("no-store")

dNoTransform == Str("no-transform")

dOnlyIfCached == Str("only-if-cached")

dMustRevalidate == Str("must-revalidate")

dMustUnderstand == Str("must-understand")

dPrivate == Str("private")

dProxyRevalidate == Str("proxy-revalidate")

dPublic == Str("public")

dSMaxAge == Str("s-maxage")

\* the zero value of the option struct
option == [ignoreUnknownDirectives |-> FALSE, ignoreInvalidValues |-> FALSE]

\* the two parseOption constructors, by name
IgnoreUnknownDirectives == "IgnoreUnknownDirectives"

IgnoreInvalidValues == "IgnoreInvalidValues"

\* opt(&option) for one parseOption
applyOption(o, opt) ==
    IF opt = IgnoreUnknownDirectives THEN [o EXCEPT !.ignoreUnknownDirectives = TRUE]
    ELSE [o EXCEPT !.ignoreInvalidValues = TRUE]

RECURSIVE applyOptions(_, _)
\* for _, opt := range opts { opt(&option) }
applyOptions(o, os) ==
    IF os = <<>> THEN o ELSE applyOptions(applyOption(o, Head(os)), Tail(os))

\* Header{}: every flag false, every duration pointer nil
Header ==
    [MaxAge |-> <<>>, MaxStale |-> <<>>, MinFresh |-> <<>>,
     NoCache |-> FALSE, NoStore |-> FALSE, NoTransform |-> FALSE,
     OnlyIfCached |-> FALSE, MustRevalidate |-> FALSE, MustUnderstand |-> FALSE,
     Private |-> FALSE, ProxyRevalidate |-> FALSE, Public |-> FALSE,
     SMaxAge |-> <<>>]

\* "name=<whole seconds>" for a duration pointer that is set, nothing for nil
durationEntry(name, p) ==
    IF p # <<>> THEN <<name \o Str("=") \o IntToStr(IntSeconds(p[1]))>> ELSE <<>>

\* the bare name for a flag that is set, nothing otherwise
flagEntry(name, b) == IF b THEN <<name>> ELSE <<>>

\* the entries with the flags in front of the durations
StringFlagsFirst(hd) ==
    Join(flagEntry(dNoCache, hd.NoCache)
         \o flagEntry(dNoStore, hd.NoStore)
         \o flagEntry(dNoTransform, hd.NoTransform)
         \o flagEntry(dOnlyIfCached, hd.OnlyIfCached)
         \o flagEntry(dMustRevalidate, hd.MustRevalidate)
         \o flagEntry(dMustUnderstand, hd.MustUnderstand)
         \o flagEntry(dPrivate, hd.Private)
         \o flagEntry(dProxyRevalidate, hd.ProxyRevalidate)
         \o flagEntry(dPublic, hd.Public)
         \o durationEntry(dMaxAge, hd.MaxAge)
         \o durationEntry(dMaxStale, hd.MaxStale)
         \o durationEntry(dMinFresh, hd.MinFresh)
         \o durationEntry(dSMaxAge, hd.SMaxAge),
         Str(", "))

\* func (h *Header) String() string
String(hd) ==
    Join(durationEntry(dMaxAge, hd.MaxAge)
         \o durationEntry(dMaxStale, hd.MaxStale)
         \o durationEntry(dMinFresh, hd.MinFresh)
         \o flagEntry(dNoCache, hd.NoCache)
         \o flagEntry(dNoStore, hd.NoStore)
         \o flagEntry(dNoTransform, hd.NoTransform)
         \o flagEntry(dOnlyIfCached, hd.OnlyIfCached)
         \o flagEntry(dMustRevalidate, hd.MustRevalidate)
         \o flagEntry(dMustUnderstand, hd.MustUnderstand)
         \o flagEntry(dPrivate, hd.Private)
         \o flagEntry(dProxyRevalidate, hd.ProxyRevalidate)
         \o flagEntry(dPublic, hd.Public)
         \o durationEntry(dSMaxAge, hd.SMaxAge),
         Str(", "))

\* -------------------------------------------------------------------------
\* parse
\* -------------------------------------------------------------------------

\* the cases of the switch over a token without '=': directive -> flag it sets
flagCases ==
    (dNoCache :> "NoCache") @@ (dNoStore :> "NoStore")
    @@ (dOnlyIfCached :> "OnlyIfCached") @@ (dMustRevalidate :> "MustRevalidate")
    @@ (dMustUnderstand :> "MustUnderstand") @@ (dPrivate :> "Private")
    @@ (dProxyRevalidate :> "ProxyRevalidate") @@ (dPublic :> "Public")

\* the cases of the switch over the key of a token with '=': directive -> field
durationCases ==
    (dMaxAge :> "MaxAge") @@ (dMaxStale :> "MaxStale")
    @@ (dMinFresh :> "MinFresh") @@ (dSMaxAge :> "SMaxAge")

\* an error return that hands back the Header built so far
unknownDirectiveKeepingHeader(hd, name) ==
    [h |-> <<hd>>, err |-> <<Str("unknown directive: ") \o name>>]

\* return nil, fmt.Errorf("unknown directive: %s", name)
unknownDirective(hd, name) ==
    [h |-> <<>>, err |-> <<Str("unknown directive: ") \o name>>]

\* return nil, fmt.Errorf("failed to parse the value of directive(%s=%s): %w", ...)
invalidValue(hd, k, v, cause) ==
    [h |-> <<>>,
     err |-> <<Str("failed to parse the value of directive(") \o k \o Str("=")
               \o v \o Str("): ") \o cause[1]>>]

RECURSIVE parseDirectives(_, _, _)

\* the rest of the loop body for the token k=v, after
\* d, err := time.ParseDuration(...) has given r
setDuration(directives, hd, o, k, v, r) ==
    LET next(x) == parseDirectives(Tail(directives), x, o)
    IN IF r.err # <<>>
       THEN IF o.ignoreInvalidValues THEN next(hd)
            ELSE invalidValue(hd, k, v, r.err)
       ELSE IF k \in DOMAIN durationCases
       THEN next([hd EXCEPT ![durationCases[k]] = <<r.d>>])
       ELSE IF o.ignoreUnknownDirectives THEN next(hd)
       ELSE unknownDirective(hd, k)

\* the loop body for one token, split at its first '=': switch len(splited)
parseDirective(directives, hd, o, splited) ==
    LET next(x) == parseDirectives(Tail(directives), x, o)
    IN IF Len(splited) = 1
       THEN IF splited[1] \in DOMAIN flagCases
            THEN next([hd EXCEPT ![flagCases[splited[1]]] = TRUE])
            ELSE IF o.ignoreUnknownDirectives THEN next(hd)
            ELSE unknownDirective(hd, splited[1])
       ELSE setDuration(directives, hd, o, splited[1], splited[2],
                        ParseDuration(TrimSpace(splited[2]) \o Str("s")))

\* for _, d := range directives { ... }; return &h, nil
parseDirectives(directives, hd, o) ==
    IF directives = <<>> THEN [h |-> <<hd>>, err |-> <<>>]
    ELSE parseDirective(directives, hd, o, SplitN2(Head(directives), Byte("=")))

\* parse once the options are applied and the header is lower-cased and rid
\* of its spaces
parseNormalized(normal, o) ==
    IF normal = <<>> THEN [h |-> <<Header>>, err |-> <<>>]
    ELSE parseDirectives(Split(normal, Byte(",")), Header, o)

\* func parse(header string, opts ...parseOption) (*Header, error)
parse(hdr, os) ==
    parseNormalized(ToLower(RemoveSpaces(hdr)), applyOptions(option, os))

\* a Parse that forgets to ignore unknown directives
ParseIgnoringInvalidValuesOnly(hdr) == parse(hdr, <<IgnoreInvalidValues>>).h

\* func Parse(header string) *Header
Parse(hdr) == parse(hdr, <<IgnoreInvalidValues, IgnoreUnknownDirectives>>).h

\* func ParseStrict(header string, opts ...parseOption) (*Header, error)
ParseStrict(hdr, os) == parse(hdr, os)

\* -------------------------------------------------------------------------
\* Inputs
\* -------------------------------------------------------------------------

\* tokens without '=': five of the flag directives, a valued name left bare,
\* an unknown name and the empty token
BareTokens ==
    {dNoCache, dNoTransform, dMustRevalidate, dPrivate, dPublic,
     dMaxAge, Str("unknown"), <<>>}

\* tokens with '=': whole seconds, other value texts, unknown and flag keys,
\* and a spelling with capitals and spaces
ValuedTokens ==
    {Str(t) : t \in
        {"max-age=3600", "max-age=0", "max-stale=60", "min-fresh=5",
         "s-maxage=10", "max-age=1.5", "max-age=10s", "max-age=invalid",
         "unknown=10", "unknown=invalid", "private=5", "private=invalid",
         " MAX-AGE = 60"}}

\* the header values handed to Parse and ParseStrict: up to MaxTokens tokens
\* separated by commas
TokenInputs ==
    {Join(ts, Str(",")) : ts \in UNION {[1..n -> BareTokens \cup ValuedTokens] : n \in 0..MaxTokens}}

\* the headers of one flag directive each, for the four flags that are not
\* among the tokens
FlagInputs == {dNoStore, dOnlyIfCached, dMustUnderstand, dProxyRevalidate}

\* the header values of the package's tests and examples
ExampleInputs ==
    {Str(s) : s \in
        {"max-age=3600, must-revalidate, private",
         "private, max-age=3600, must-revalidate",
         "max-age=3600, must-revalidate, private, unknown",
         "max-age=invalid, must-revalidate, private",
         "max-age=10s, must-revalidate, private"}}

\* headers with a leading, a trailing and a doubled comma
CommaInputs == {Str(s) : s \in {"private,,public", ",private,", " , "}}

\* headers of one directive whose value text is signed, carries a unit of
\* its own, is empty, holds a quote, is a number of seconds a float64 rounds,
\* has ten digits after the point, has more digits after the point than a
\* float64 scale holds exactly (one of them behind a term that all but fills
\* an int64), or is a whole number of seconds beyond 2^31, inside and outside
\* the range of an int64 of nanoseconds
EdgeInputs ==
    {Str(s) : s \in
        {"max-age=-5", "max-age=1m", "max-age=", "max-age=\"",
         "max-age=16777216.999999999", "max-age=1.5000000000",
         "max-age=0.0000000029999999999999997",
         "max-age=0.00000427199999999999967",
         "max-age=9223372036854775805ns0.0000000029999999999999997",
         "max-age=3000000000",
         "max-age=9223372036", "max-age=9223372037"}}

\* headers of one directive whose value text holds a form feed, a tab or the
\* control character 0x01
ControlInputs ==
    {Str("max-age=") \o <<\h0C>> \o Str("60"),
     Str("max-age=6") \o <<\h09>> \o Str("0"),
     Str("max-age=") \o <<\h01>>}

\* headers with bytes beyond ASCII: a value that ends in the micro sign
\* U+00B5, a value behind a no-break space U+00A0 and one in front of an
\* ideographic space U+3000, names spelled with the long s U+017F, with the
\* dotless i U+0131 and with the capital I with a dot U+0130, a token that
\* is the byte 0xff, and a value that is the first two bytes of a sequence
\* of three
NonASCIIInputs ==
    {Str("max-age=1") \o <<\hC2, \hB5>>,
     Str("max-age=") \o <<\hC2, \hA0>> \o Str("60"),
     Str("max-age=60") \o <<\hE3, \h80, \h80>>,
     <<\hC5, \hBF>> \o Str("-maxage=10"),
     Str("pr") \o <<\hC4, \hB1>> \o Str("vate"),
     Str("PR") \o <<\hC4, \hB0>> \o Str("VATE"),
     Str("no-cache,") \o <<\hFF>>,
     Str("max-age=") \o <<\hE2, \h82>>}

\* headers that give one directive twice: the same number of seconds spelled
\* in two ways, and one value three times over with other directives between
RepeatInputs ==
    {Str(s) : s \in {"max-age=60,max-age=060", "max-age=5,private,max-age=5,max-age=5"}}

Inputs ==
    TokenInputs \cup FlagInputs \cup ExampleInputs \cup CommaInputs \cup RepeatInputs
    \cup EdgeInputs \cup ControlInputs \cup NonASCIIInputs

\* the option lists handed to ParseStrict
OptionLists ==
    {<<>>, <<IgnoreUnknownDirectives>>, <<IgnoreInvalidValues>>,
     <<IgnoreUnknownDirectives, IgnoreInvalidValues>>}

\* the durations a caller puts into a Header it builds: whole seconds
BuiltSeconds == {0, 3600}

DurationPointers == {<<>>} \cup {<<Seconds(n)>> : n \in BuiltSeconds}

\* the Header values a caller can build from the thirteen fields
BuiltHeaders ==
    [MaxAge : DurationPointers, MaxStale : DurationPointers,
     MinFresh : DurationPointers, NoCache : BOOLEAN, NoStore : BOOLEAN,
     NoTransform : BOOLEAN, OnlyIfCached : BOOLEAN, MustRevalidate : BOOLEAN,
     MustUnderstand : BOOLEAN, Private : BOOLEAN, ProxyRevalidate : BOOLEAN,
     Public : BOOLEAN, SMaxAge : DurationPointers]

\* -------------------------------------------------------------------------
\* The calls a client makes
\* -------------------------------------------------------------------------

\* a client holds a header value and has called nothing yet
Init ==
    /\ header \in Inputs
    /\ opts = <<>>
    /\ pc = "start"
    /\ h = <<>>
    /\ err = <<>>
    /\ str = <<>>
    /\ h2 = <<>>

\* a client holds a Header it built field by field
InitFormat ==
    /\ header = <<>>
    /\ opts = <<>>
    /\ pc = "built"
    /\ h \in {<<b>> : b \in BuiltHeaders}
    /\ err = <<>>
    /\ str = <<>>
    /\ h2 = <<>>

\* h := Parse(header)
CallParse ==
    /\ pc = "start"
    /\ h' = Parse(header)
    /\ pc' = "Parse"
    /\ UNCHANGED <<header, opts, err, str, h2>>

\* h, err := ParseStrict(header, os...)
CallParseStrict(os) ==
    /\ pc = "start"
    /\ opts' = os
    /\ LET r == ParseStrict(header, os)
       IN h' = r.h /\ err' = r.err
    /\ pc' = "ParseStrict"
    /\ UNCHANGED <<header, str, h2>>

\* str := h.String()
CallString ==
    /\ pc \in {"Parse", "built"}
    /\ h # <<>>
    /\ str' = String(h[1])
    /\ pc' = "String"
    /\ UNCHANGED <<header, opts, h, err, h2>>

\* h2 := Parse(str)
CallParseAgain ==
    /\ pc = "String"
    /\ h2' = Parse(str)
    /\ pc' = "ParseAgain"
    /\ UNCHANGED <<header, opts, h, err, str>>

Next ==
    \/ CallParse
    \/ \E os \in OptionLists : CallParseStrict(os)
    \/ CallString
    \/ CallParseAgain

Spec == Init /\ [][Next]_vars

NextFormat ==
    \/ CallString
    \/ CallParseAgain

SpecFormat == InitFormat /\ [][NextFormat]_vars

\* a client holds a Header whose max-age it set to a fraction of a second,
\* below or above 2^24 seconds
InitFraction ==
    /\ header = <<>>
    /\ opts = <<>>
    /\ pc = "built"
    /\ h \in {<<[Header EXCEPT !.MaxAge = <<d>>]>> : d \in {Dur(1, 500000000), Dur(16777216, 999999999)}}
    /\ err = <<>>
    /\ str = <<>>
    /\ h2 = <<>>

\* a client either holds a header value to parse or a Header it built
InitAll == Init \/ InitFormat \/ InitFraction

SpecAll == InitAll /\ [][Next]_vars


\* -------------------------------------------------------------------------
\* Vocabulary of the properties: what the specification calls a token, a
\* recognized name and a valid value
\* -------------------------------------------------------------------------

\* the comma-separated tokens of the normalized input (none for an empty one)
TokensOf(hdr) ==
    IF ToLower(RemoveSpaces(hdr)) = <<>> THEN <<>>
    ELSE Split(ToLower(RemoveSpaces(hdr)), Byte(","))

HasValue(t) == Index(t, Byte("=")) # 0

TokenName(t) == SplitN2(t, Byte("="))[1]

TokenValue(t) == SplitN2(t, Byte("="))[2]

\* the nine flag directives of the specification and the field of each
FlagFieldOf ==
    (dNoCache :> "NoCache") @@ (dNoStore :> "NoStore")
    @@ (dNoTransform :> "NoTransform") @@ (dOnlyIfCached :> "OnlyIfCached")
    @@ (dMustRevalidate :> "MustRevalidate")
    @@ (dMustUnderstand :> "MustUnderstand") @@ (dPrivate :> "Private")
    @@ (dProxyRevalidate :> "ProxyRevalidate") @@ (dPublic :> "Public")

\* the four valued directives of the specification and the field of each
DurationFieldOf ==
    (dMaxAge :> "MaxAge") @@ (dMaxStale :> "MaxStale")
    @@ (dMinFresh :> "MinFresh") @@ (dSMaxAge :> "SMaxAge")

FlagNames == DOMAIN FlagFieldOf

ValuedNames == DOMAIN DurationFieldOf

\* delta-seconds: a non-empty run of decimal digits
IsDecimal(v) == v # <<>> /\ \A i \in 1..Len(v) : IsDigit(v[i])

RECURSIVE DecimalDigits(_, _)
DecimalDigits(x, v) ==
    IF v = <<>> THEN x
    ELSE DecimalDigits(BigNorm(BigMulAdd(x, 10, DigitVal(Head(v)))), Tail(v))

\* the whole number a run of decimal digits spells, however large
DecimalValue(v) == DecimalDigits(<<>>, v)

\* the duration of as many seconds as the decimal digits of v spell
DecimalSeconds(v) == Duration(FALSE, BigMul(DecimalValue(v), Second))

\* a token whose directive name is in neither set, whatever its shape
HasUnrecognizedName(t) == TokenName(t) \notin (FlagNames \cup ValuedNames)

\* a token that is no directive: a bare token that is no flag name, or a
\* name=value token whose name is no valued name
IsUnknownToken(t) ==
    IF HasValue(t) THEN TokenName(t) \notin ValuedNames ELSE t \notin FlagNames

\* a valued directive whose value text is no delta-seconds
IsInvalidToken(t) ==
    HasValue(t) /\ TokenName(t) \in ValuedNames /\ ~IsDecimal(TokenValue(t))

\* a well-formed directive: a bare flag name or a valued name with '='
IsDirectiveToken(t) == ~IsUnknownToken(t)

\* the conversion of a value text to a duration
Conversion(v) == ParseDuration(TrimSpace(v) \o Str("s"))

\* a valued directive whose value text converts
IsConvertingToken(t) ==
    HasValue(t) /\ TokenName(t) \in ValuedNames /\ Conversion(TokenValue(t)).err = <<>>

\* a valued directive whose value text fails conversion
IsFailingToken(t) ==
    HasValue(t) /\ TokenName(t) \in ValuedNames /\ Conversion(TokenValue(t)).err # <<>>

IsUnknownError(e, name) == e = <<Str("unknown directive: ") \o name>>

\* the text every invalid-value error for the token k=v starts with
invalidValuePrefix(k, v) ==
    Str("failed to parse the value of directive(") \o k \o Str("=") \o v \o Str("): ")

IsInvalidError(e, k, v) ==
    /\ e # <<>>
    /\ Len(e[1]) >= Len(invalidValuePrefix(k, v))
    /\ SubSeq(e[1], 1, Len(invalidValuePrefix(k, v))) = invalidValuePrefix(k, v)

Last(S) == CHOOSE i \in S : \A j \in S : j <= i

First(S) == CHOOSE i \in S : \A j \in S : i <= j

\* the parse has come back with a Header
Parsed == pc = "Parse" \/ (pc = "ParseStrict" /\ err = <<>>)

\* the Header the specification expects from the directives among ts: a flag
\* for every bare flag name, and for every valued name the value of its last
\* occurrence whose value text converts
ExpectedHeader(ts) ==
    [f \in DOMAIN Header |->
        IF \E name \in FlagNames : FlagFieldOf[name] = f
        THEN \E i \in 1..Len(ts) : ts[i] \in FlagNames /\ FlagFieldOf[ts[i]] = f
        ELSE LET ok == {i \in 1..Len(ts) :
                           /\ IsConvertingToken(ts[i])
                           /\ DurationFieldOf[TokenName(ts[i])] = f}
             IN IF ok = {} THEN <<>>
                ELSE <<Conversion(TokenValue(ts[Last(ok)])).d>>]

\* the lower-case letters of Unicode whose capital has another lower-case
\* form, each with that capital: the micro sign, the dotless i, the long s,
\* the combining iota, the final sigma, the Greek symbol letters, the old
\* Cyrillic forms, the long s with a dot and the prosgegrammeni
OddCapitals ==
    (\h00B5 :> \h039C) @@ (\h0131 :> \h0049) @@ (\h017F :> \h0053)
    @@ (\h0345 :> \h0399) @@ (\h03C2 :> \h03A3) @@ (\h03D0 :> \h0392)
    @@ (\h03D1 :> \h0398) @@ (\h03D5 :> \h03A6) @@ (\h03D6 :> \h03A0)
    @@ (\h03F0 :> \h039A) @@ (\h03F1 :> \h03A1) @@ (\h03F5 :> \h0395)
    @@ (\h1C80 :> \h0412) @@ (\h1C81 :> \h0414) @@ (\h1C82 :> \h041E)
    @@ (\h1C83 :> \h0421) @@ (\h1C84 :> \h0422) @@ (\h1C85 :> \h0422)
    @@ (\h1C86 :> \h042A) @@ (\h1C87 :> \h0462) @@ (\h1C88 :> \hA64A)
    @@ (\h1E9B :> \h1E60) @@ (\h1FBE :> \h0399)

\* the capitals beyond ASCII whose lower-case form is r
CapitalsOf(r) ==
    {r - CaseRanges[k][4] : k \in
        {k \in 1..Len(CaseRanges) :
            /\ CaseRanges[k][1] <= r - CaseRanges[k][4]
            /\ r - CaseRanges[k][4] <= CaseRanges[k][2]
            /\ (r - CaseRanges[k][4] - CaseRanges[k][1]) % CaseRanges[k][3] = 0}}

\* the capitals and the small letters of ASCII, 'a' - 'A' apart
Capitals == Byte("A")..Byte("Z")

SmallLetters == Byte("a")..Byte("z")

CaseGap == Byte("a") - Byte("A")

\* a letter in its other case: a capital as its small letter, a small letter
\* as its capital (the first of them where it has several); any other rune as
\* it is
FlipRune(r) ==
    IF r \in Capitals THEN r + CaseGap
    ELSE IF r \in SmallLetters THEN r - CaseGap
    ELSE IF r <= MaxASCII THEN r
    ELSE IF ToLowerRune(r) # r THEN ToLowerRune(r)
    ELSE IF r \in DOMAIN OddCapitals THEN OddCapitals[r]
    ELSE IF CapitalsOf(r) = {} THEN r
    ELSE First(CapitalsOf(r))

\* the two cases of r are spellings of one letter for strings.ToLower
HasOneLowerCase(r) == ToLowerRune(FlipRune(r)) = ToLowerRune(r)

\* the rune d.r of d.size bytes at the front of s in its other case; left as
\* it is when it is no letter, a byte that is no UTF-8 among them, and when
\* within holds and its other case has another lower-case form
flipFront(s, d, within) ==
    IF FlipRune(d.r) = d.r \/ (within /\ ~HasOneLowerCase(d.r))
    THEN SubSeq(s, 1, d.size)
    ELSE EncodeRune(FlipRune(d.r))

RECURSIVE FlipCase(_, _, _, _)

\* the step of FlipCase over the rune d at the front of s
flipNext(s, d, i, alternate, within) ==
    (IF alternate /\ i % 2 = 0 THEN SubSeq(s, 1, d.size) ELSE flipFront(s, d, within))
    \o FlipCase(From(s, d.size), i + 1, alternate, within)

\* s, whose first rune is the i-th of the whole string, with the letter case
\* changed: of every rune, or of the runes at odd places when alternate
\* holds, and with the letters of OddCapitals left alone when within holds
FlipCase(s, i, alternate, within) ==
    IF s = <<>> THEN <<>>
    ELSE IF s[1] < RuneSelf
    THEN <<IF alternate /\ i % 2 = 0 THEN s[1] ELSE FlipRune(s[1])>>
         \o FlipCase(Tail(s), i + 1, alternate, within)
    ELSE flipNext(s, DecodeRune(s), i, alternate, within)

\* respellings of s that differ from it in letter case only: every letter
\* changed, and the letters at odd places changed
CaseVariants(s) == {FlipCase(s, 1, alternate, FALSE) : alternate \in BOOLEAN}

\* the respellings of s among them that change a letter only to a spelling
\* with the same lower-case form
FoldVariants(s) == {FlipCase(s, 1, alternate, TRUE) : alternate \in BOOLEAN}

\* s with every space character taken out
DeleteSpaces(s) == SelectSeq(s, IsNoSpaceByte)

\* s with a space put in front of every byte
InsertSpaces(s) ==
    [i \in 1..(2 * Len(s)) |-> IF i % 2 = 1 THEN Byte(" ") ELSE s[i \div 2]]

\* respellings of s that differ from it in space characters only: every space
\* deleted, and a space put in front of every byte and at the end (so around
\* commas and '=', at both ends and inside every token)
SpaceVariants(s) == {DeleteSpaces(s), InsertSpaces(s) \o Str(" ")}

\* a whole number as fmt prints it: decimal digits, a '-' in front when negative
IsWholeNumber(v) ==
    \/ IsDecimal(v)
    \/ Len(v) > 1 /\ Head(v) = Byte("-") /\ IsDecimal(Tail(v))

WholeNumberValue(v) ==
    IF Head(v) = Byte("-") THEN Signed(TRUE, DecimalValue(Tail(v)))
    ELSE Signed(FALSE, DecimalValue(v))

\* the pieces of a formatted header between its commas
PiecesOf(s) == IF s = <<>> THEN <<>> ELSE Split(s, Byte(","))

\* the entries of a formatted header: the pieces without the space that
\* follows each comma
EntriesOf(s) ==
    LET ps == PiecesOf(s)
    IN [i \in 1..Len(ps) |-> IF i = 1 \/ ps[i] = <<>> THEN ps[i] ELSE Tail(ps[i])]

\* the number of fields of hd that differ from the zero value
NonDefaultCount(hd) ==
    Cardinality({n \in FlagNames : hd[FlagFieldOf[n]]})
    + Cardinality({n \in ValuedNames : hd[DurationFieldOf[n]] # <<>>})

\* the one sequence every formatted header is a subsequence of
FormatOrder ==
    <<dMaxAge, dMaxStale, dMinFresh, dNoCache, dNoStore, dNoTransform,
      dOnlyIfCached, dMustRevalidate, dMustUnderstand, dPrivate,
      dProxyRevalidate, dPublic, dSMaxAge>>

\* the place of an entry's directive in FormatOrder, 0 for a foreign name
OrderOf(entry) ==
    LET n == IF HasValue(entry) THEN TokenName(entry) ELSE entry
        at == {k \in 1..Len(FormatOrder) : FormatOrder[k] = n}
    IN IF at = {} THEN 0 ELSE CHOOSE k \in at : TRUE

\* the tokens ts in every order
Reorderings(ts) ==
    {[i \in 1..Len(ts) |-> ts[p[i]]] : p \in Permutations(1..Len(ts))}

\* two value texts of one value: they are the same text, or decimal digits
\* that spell the same whole number
SameValue(v, w) ==
    v = w \/ (IsDecimal(v) /\ IsDecimal(w) /\ DecimalValue(v) = DecimalValue(w))

\* no valued directive is given twice with two values
OneValuePerName(ts) ==
    \A i, j \in 1..Len(ts) :
        (/\ HasValue(ts[i]) /\ HasValue(ts[j])
         /\ TokenName(ts[i]) \in ValuedNames
         /\ TokenName(ts[i]) = TokenName(ts[j]))
            => SameValue(TokenValue(ts[i]), TokenValue(ts[j]))

\* a token that uses a directive name in the wrong form: a flag name with a
\* value, or a valued name without one
IsMisplacedToken(t) ==
    IF HasValue(t) THEN TokenName(t) \in FlagNames ELSE t \in ValuedNames

IsNotMisplacedToken(t) == ~IsMisplacedToken(t)

IsNonEmptyToken(t) == t # <<>>

\* -------------------------------------------------------------------------
\* Properties
\* -------------------------------------------------------------------------

\* C1: lenient Parse never fails: it returns a non-nil Header, the one
\* ParseStrict returns for the same input with IgnoreUnknownDirectives and
\* IgnoreInvalidValues both set, and that call returns no error.
C1_LenientNeverFails ==
    pc = "Parse" =>
        /\ h # <<>>
        /\ LET r == ParseStrict(header,
                                <<IgnoreUnknownDirectives, IgnoreInvalidValues>>)
           IN r.err = <<>> /\ r.h = h

\* C1 witness: Parse has returned for an input default ParseStrict rejects,
\* and kept the flag of a token it did understand
C1_Witness ==
    /\ pc = "Parse"
    /\ ParseStrict(header, <<>>).err # <<>>
    /\ h # <<>>
    /\ h[1].NoCache

\* C2: default ParseStrict returns an error exactly when some token is an
\* unknown directive or carries an invalid value, and the error is the one for
\* the leftmost such token (an unknown-directive error naming the token or its
\* key, or an invalid-value error naming its key and raw value text).
C2_StrictFailsOnLeftmostOffender ==
    (pc = "ParseStrict" /\ opts = <<>>) =>
        LET ts  == TokensOf(header)
            bad == {i \in 1..Len(ts) : IsUnknownToken(ts[i]) \/ IsInvalidToken(ts[i])}
        IN IF bad = {} THEN err = <<>> /\ h # <<>>
           ELSE LET t == ts[First(bad)]
                IN \/ IsUnknownError(err, TokenName(t))
                   \/ HasValue(t) /\ IsInvalidError(err, TokenName(t), TokenValue(t))

\* C3: after a parse that returns a Header, each of the nine flags is true if
\* and only if its directive name occurred as a token with no '=value'.
C3_FlagIffBareToken ==
    Parsed =>
        \A name \in FlagNames :
            h[1][FlagFieldOf[name]]
                = (\E i \in 1..Len(TokensOf(header)) : TokensOf(header)[i] = name)

\* C4: after a parse that returns a Header, a duration field is present if and
\* only if its directive occurred as name=N with N a non-negative decimal
\* integer, and it then equals N seconds; any other value text is an invalid
\* value that makes default ParseStrict fail.
C4_DurationIffDecimalValue ==
    LET ts == TokensOf(header)
    IN /\ Parsed =>
            \A name \in ValuedNames :
                LET ok == {i \in 1..Len(ts) :
                              /\ HasValue(ts[i])
                              /\ TokenName(ts[i]) = name
                              /\ IsDecimal(TokenValue(ts[i]))}
                    p  == h[1][DurationFieldOf[name]]
                IN /\ (p # <<>>) = (ok # {})
                   /\ p # <<>> =>
                        \E i \in ok : p = <<DecimalSeconds(TokenValue(ts[i]))>>
       /\ (pc = "ParseStrict" /\ opts = <<>>
           /\ \E i \in 1..Len(ts) : IsInvalidToken(ts[i])) => err # <<>>

\* C5: round trip: for a Header h built from the thirteen fields, with whole
\* non-negative seconds in the durations that are set, Parse(h.String()) is a
\* Header equal to h field by field.
C5_RoundTripOfBuiltHeader ==
    pc = "ParseAgain" => h2 = h

\* C6: ParseStrict with only IgnoreUnknownDirectives skips every token whose
\* directive name is not recognized, bare or name=value, whatever its value
\* text: whenever every token with a recognized valued name has a valid value
\* it returns no error and the Header built from the remaining tokens.
C6_IgnoreUnknownSkipsAnyUnknownToken ==
    LET ts == TokensOf(header)
    IN (/\ pc = "ParseStrict"
        /\ opts = <<IgnoreUnknownDirectives>>
        /\ \A i \in 1..Len(ts) : ~IsInvalidToken(ts[i]))
       => /\ err = <<>>
          /\ h = Parse(Join(SelectSeq(ts, IsDirectiveToken), Str(",")))

\* C7: the toggles are independent: ParseStrict with only IgnoreInvalidValues
\* still fails with an unknown-directive error on every input that holds a
\* token whose directive name is not recognized, bare or name=value, whatever
\* the value text.
C7_IgnoreInvalidStillRejectsUnknown ==
    LET ts == TokensOf(header)
    IN (/\ pc = "ParseStrict"
        /\ opts = <<IgnoreInvalidValues>>
        /\ \E i \in 1..Len(ts) : HasUnrecognizedName(ts[i]))
       => \E i \in 1..Len(ts) : IsUnknownError(err, TokenName(ts[i]))

\* C8: ParseStrict with IgnoreInvalidValues, on an input whose tokens all have
\* recognized directive names, returns no error; a valued directive whose value
\* text fails conversion is skipped, and every other directive of the input is
\* reflected in the returned Header.
C8_IgnoreInvalidKeepsOtherDirectives ==
    LET ts == TokensOf(header)
    IN (/\ pc = "ParseStrict"
        /\ opts = <<IgnoreInvalidValues>>
        /\ \A i \in 1..Len(ts) : IsDirectiveToken(ts[i]))
       => /\ err = <<>>
          /\ h = <<ExpectedHeader(ts)>>

\* C9: whenever strict parsing returns an error, under any options, the Header
\* returned with it is nil: no Header built from the tokens before the
\* offending one comes back.
C9_NilHeaderOnError ==
    (pc = "ParseStrict" /\ err # <<>>) => h = <<>>

\* C9 witness: ParseStrict has failed on a token that follows directives it
\* had already taken into the Header
C9_Witness ==
    /\ pc = "ParseStrict"
    /\ err # <<>>
    /\ Len(TokensOf(header)) = 2
    /\ IsDirectiveToken(TokensOf(header)[1])
    /\ Parse(header) # <<Header>>
    /\ h = <<>>

\* C10 as stated: case insensitivity: for an input s and any s' that differs
\* from s in letter case only, lenient Parse returns equal Headers for both,
\* and ParseStrict with the same options returns the same Header or the same
\* error for both.
C10_CaseInsensitive ==
    /\ pc = "Parse" => \A v \in CaseVariants(header) : Parse(v) = h
    /\ pc = "ParseStrict" =>
          \A v \in CaseVariants(header) :
              ParseStrict(v, opts) = [h |-> h, err |-> err]

\* C10 as amended: for an input s and any s' that differs from s in the case
\* of letters whose two cases have one lower-case form, lenient Parse returns
\* equal Headers for both, and ParseStrict with the same options returns the
\* same Header or the same error for both.
C10_CaseInsensitiveForOneLowerCase ==
    /\ pc = "Parse" => \A v \in FoldVariants(header) : Parse(v) = h
    /\ pc = "ParseStrict" =>
          \A v \in FoldVariants(header) :
              ParseStrict(v, opts) = [h |-> h, err |-> err]

\* C10 witness: ParseStrict has taken a directive spelled with capitals, one
\* of them beyond ASCII, and the input has respellings that differ from it
C10_Witness ==
    /\ pc = "ParseStrict"
    /\ err = <<>>
    /\ header # ToLower(header)
    /\ \E i \in 1..Len(header) : header[i] >= RuneSelf
    /\ \E v \in FoldVariants(header) : v # header /\ v # ToLower(header)
    /\ h[1].Private

\* C11: whitespace tolerance: for an input s and any s' got from s by
\* inserting or deleting space characters anywhere, lenient Parse returns
\* equal Headers for both and ParseStrict the same Header or the same error;
\* an input of spaces only parses like the empty input, to an all-default
\* Header with no error.
C11_SpaceInsensitive ==
    /\ pc = "Parse" => \A v \in SpaceVariants(header) : Parse(v) = h
    /\ pc = "ParseStrict" =>
          \A v \in SpaceVariants(header) :
              ParseStrict(v, opts) = [h |-> h, err |-> err]
    /\ (pc \in {"Parse", "ParseStrict"} /\ DeleteSpaces(header) = <<>>) =>
          /\ h = <<Header>>
          /\ err = <<>>
          /\ Parse(Str("   ")) = h

\* C11 witness: ParseStrict has taken a directive written with spaces around
\* its '=' and at its front
C11_Witness ==
    /\ pc = "ParseStrict"
    /\ err = <<>>
    /\ header # DeleteSpaces(header)
    /\ Index(header, Byte("=")) > 1
    /\ header[Index(header, Byte("=")) - 1] = Byte(" ")
    /\ h[1].MaxAge = <<Seconds(60)>>

\* C12: last write wins: when a valued directive occurs several times in one
\* input the duplicate is never rejected, and the field holds the value of the
\* last occurrence whose value text is valid; a later occurrence skipped as
\* invalid neither clears nor changes the value of an earlier valid one.
C12_LastValidOccurrenceWins ==
    LET ts == TokensOf(header)
    IN \A name \in ValuedNames :
         LET occ == {i \in 1..Len(ts) : HasValue(ts[i]) /\ TokenName(ts[i]) = name}
             ok  == {i \in occ : IsDecimal(TokenValue(ts[i]))}
         IN Cardinality(occ) >= 2 =>
              /\ (pc = "ParseStrict" /\ occ = 1..Len(ts) /\ ok = occ) => err = <<>>
              /\ Parsed =>
                   h[1][DurationFieldOf[name]]
                     = IF ok = {} THEN <<>>
                       ELSE <<DecimalSeconds(TokenValue(ts[Last(ok)]))>>

\* C13: String emits exactly the non-default fields: the bare name of a flag
\* iff the flag is true, name=<whole seconds> iff the duration is present (a
\* present zero included), no unit and no fraction, the entries joined by
\* ", ", and the empty string for the all-default Header.
C13_StringEmitsNonDefaultFields ==
    pc = "String" =>
        LET hd == h[1]
            ps == PiecesOf(str)
            es == EntriesOf(str)
            bare(n) == {i \in 1..Len(es) : es[i] = n}
            valued(n) == {i \in 1..Len(es) : HasValue(es[i]) /\ TokenName(es[i]) = n}
        IN /\ \A i \in 2..Len(ps) : ps[i] # <<>> /\ Head(ps[i]) = Byte(" ")
           /\ \A i \in 1..Len(es) : es[i] # <<>> /\ Index(es[i], Byte(" ")) = 0
           /\ \A n \in FlagNames :
                Cardinality(bare(n)) = IF hd[FlagFieldOf[n]] THEN 1 ELSE 0
           /\ \A n \in ValuedNames :
                LET p == hd[DurationFieldOf[n]]
                IN IF p = <<>> THEN valued(n) = {}
                   ELSE /\ Cardinality(valued(n)) = 1
                        /\ \A i \in valued(n) :
                             /\ IsWholeNumber(TokenValue(es[i]))
                             /\ WholeNumberValue(TokenValue(es[i])) = WholeSeconds(p[1])
           /\ Len(es) = NonDefaultCount(hd)
           /\ hd = Header => str = <<>>

\* C14 as stated: the formatting order is fixed: the directives of String()
\* appear as a subsequence of FormatOrder, so the same directives given in
\* another order format to the same string after a lenient parse, and
\* 'private, max-age=3600, must-revalidate' formats to 'max-age=3600,
\* must-revalidate, private'.
C14_FormatOrderIsFixed ==
    pc = "String" =>
        /\ LET es == EntriesOf(str)
           IN /\ \A i \in 1..Len(es) : OrderOf(es[i]) > 0
              /\ \A i, j \in 1..Len(es) : i < j => OrderOf(es[i]) < OrderOf(es[j])
        /\ h = Parse(header) =>
              \A ts \in Reorderings(TokensOf(header)) :
                  String(Parse(Join(ts, Str(",")))[1]) = str
        /\ header = Str("private, max-age=3600, must-revalidate")
              => str = Str("max-age=3600, must-revalidate, private")

\* C14 as amended: the directives of String() appear as a subsequence of
\* FormatOrder, so the same directives given in another order, none of the
\* valued ones given twice with two values, format to the same string
\* after a lenient parse, and 'private, max-age=3600, must-revalidate'
\* formats to 'max-age=3600, must-revalidate, private'.
C14_FormatOrderIsFixedForOneValuePerName ==
    pc = "String" =>
        /\ LET es == EntriesOf(str)
           IN /\ \A i \in 1..Len(es) : OrderOf(es[i]) > 0
              /\ \A i, j \in 1..Len(es) : i < j => OrderOf(es[i]) < OrderOf(es[j])
        /\ (h = Parse(header) /\ OneValuePerName(TokensOf(header))) =>
              \A ts \in Reorderings(TokensOf(header)) :
                  String(Parse(Join(ts, Str(",")))[1]) = str
        /\ header = Str("private, max-age=3600, must-revalidate")
              => str = Str("max-age=3600, must-revalidate, private")

\* C14 witness: the example header has been parsed and formatted, its
\* directives come out in another order than they went in, and it has other
\* orders to be given in
C14_Witness ==
    /\ pc = "String"
    /\ header = Str("private, max-age=3600, must-revalidate")
    /\ str = Str("max-age=3600, must-revalidate, private")
    /\ OneValuePerName(TokensOf(header))
    /\ Cardinality(Reorderings(TokensOf(header))) = 6
    /\ h[1].Private /\ h[1].MustRevalidate /\ h[1].MaxAge = <<Seconds(3600)>>

\* C15: a flag name with '=' (private=5) and a bare valued name (max-age) are
\* unknown directives: lenient Parse skips them and they set no field, and
\* default ParseStrict, once the tokens in front of the first of them are
\* accepted, fails with the unknown-directive error naming its key or token.
C15_MisplacedNameIsUnknown ==
    LET ts == TokensOf(header)
        at == {i \in 1..Len(ts) : IsMisplacedToken(ts[i])}
    IN at # {} =>
         /\ pc = "Parse" =>
              h = Parse(Join(SelectSeq(ts, IsNotMisplacedToken), Str(",")))
         /\ (pc = "ParseStrict" /\ opts = <<>>) =>
              /\ h = <<>>
              /\ err # <<>>
              /\ parseDirectives(SubSeq(ts, 1, First(at) - 1), Header, option).err = <<>>
                   => IsUnknownError(err, TokenName(ts[First(at)]))

\* C16: the empty tokens that leading, trailing and doubled commas leave in a
\* non-empty normalized input are unknown directives: default ParseStrict
\* fails, with the unknown-directive error naming the empty token when that
\* is the leftmost token that is unknown or carries an invalid value, while
\* lenient Parse, and ParseStrict with IgnoreUnknownDirectives when no valued
\* directive stops it, return the Header of the remaining tokens and no
\* error.
C16_EmptyTokenIsUnknown ==
    LET ts   == TokensOf(header)
        at   == {i \in 1..Len(ts) : ts[i] = <<>>}
        bad  == {i \in 1..Len(ts) : IsUnknownToken(ts[i]) \/ IsInvalidToken(ts[i])}
        rest == SelectSeq(ts, IsNonEmptyToken)
    IN at # {} =>
         /\ pc = "Parse" => h = <<ExpectedHeader(rest)>>
         /\ (/\ pc = "ParseStrict"
             /\ applyOptions(option, opts).ignoreUnknownDirectives
             /\ \/ applyOptions(option, opts).ignoreInvalidValues
                \/ \A i \in 1..Len(rest) : ~IsFailingToken(rest[i]))
            => /\ err = <<>>
               /\ h = <<ExpectedHeader(rest)>>
         /\ (pc = "ParseStrict" /\ opts = <<>>) =>
              /\ h = <<>>
              /\ err # <<>>
              /\ First(bad) \in at => IsUnknownError(err, <<>>)

\* C17: canonical re-serialization preserves the parsed facts: for every
\* input s, with h = Parse(s), Parse(h.String()) equals h field by field,
\* whatever value text the input carried.
C17_ReparseOfParsedInput ==
    (pc = "ParseAgain" /\ h = Parse(header)) =>
        /\ str = String(h[1])
        /\ \A f \in DOMAIN Header : h2[1][f] = h[1][f]
====
